---------------------------- MODULE Spec2Model ----------------------------
(***************************************************************************)
(* The "no-sails" lint rule of eslint-plugin-hireup (src/index.js).        *)
(*                                                                         *)
(* The rule registers one handler, "Program:exit".  The handler asks the   *)
(* host for the current scope, looks the variable `sails` up along the     *)
(* scope chain, and reports every reference to it that is the object of a  *)
(* member access whose property name is not on the configured allow-list.  *)
(*                                                                         *)
(* The host (ESLint and its scope analysis) supplies the syntax nodes, the *)
(* scopes, the variables and the references.  They are inputs here: Init   *)
(* draws a small program and the scope graph the host derives from it.     *)
(***************************************************************************)
EXTENDS Integers, Sequences, FiniteSets, TLC

VARIABLES
    ctxOptions,   \* context.options: the rule's configuration, as the host passes it
    scopes,       \* the host's scope graph: scopes[i] is a Scope, its `upper` an index (0: null)
    start,        \* the scope context.getScope() returns in "Program:exit"
    uses,         \* every Reference of the program, in the host's order
    allowed,      \* the closure's `allowed` (line 43)
    pc,           \* "start" | "created" | "exited" | "extract" | "extracted"
    reports,      \* what the current context received through context.report
    examined,     \* the handler's local `references` (lines 118-120)
    prev,         \* the diagnostics of the previous, completed run on this input
    node,         \* the argument of a stand-alone call of getStaticPropertyName
    propertyName  \* the result of that call

vars == << ctxOptions, scopes, start, uses, allowed, pc, reports, examined,
           prev, node, propertyName >>

---------------------------------------------------------------------------
(* Bounds of the model *)

\* the longest reference list of a program
MaxRefs == 2
\* the deepest nesting of scopes: scope 1 is the global scope, scope i+1 is nested in scope i
MaxDepth == 2

---------------------------------------------------------------------------
(* JavaScript values.  Every value carries its type tag `t`, so that a     *)
(* string is never confused with null, with a number or with an array.     *)

Null == [t |-> "null"]
Undefined == [t |-> "undefined"]
Str(s) == [t |-> "str", v |-> s]
Num(n) == [t |-> "num", v |-> n]
Bool(b) == [t |-> "bool", v |-> b]
Arr(xs) == [t |-> "array", v |-> xs]

\* ToBoolean, as `&&` and `||` apply it
Truthy(x) ==
    CASE x.t = "null" -> FALSE
      [] x.t = "undefined" -> FALSE
      [] x.t = "str" -> x.v # ""
      [] x.t = "num" -> x.v # 0
      [] x.t = "bool" -> x.v
      [] OTHER -> TRUE

Digit == << "0", "1", "2", "3", "4", "5", "6", "7", "8", "9" >>

\* the decimal digits of a natural number, the last digit first
RECURSIVE NatToStringReversed(_)
NatToStringReversed(n) ==
    IF n < 10 THEN Digit[n + 1]
    ELSE Digit[(n % 10) + 1] \o NatToStringReversed(n \div 10)

\* the decimal digits of a natural number
RECURSIVE NatToString(_)
NatToString(n) ==
    IF n < 10 THEN Digit[n + 1]
    ELSE NatToString(n \div 10) \o Digit[(n % 10) + 1]

\* String(value) of a literal's value (line 183); the result is a JavaScript string.
\* A numeric literal is never negative (a minus sign is a unary expression).
String(x) ==
    CASE x.t = "str" -> x.v
      [] x.t = "num" -> NatToString(x.v)
      [] x.t = "bool" -> IF x.v THEN "true" ELSE "false"
      [] x.t = "null" -> "null"
      [] OTHER -> "undefined"

\* Array.prototype.indexOf on an array of strings: the first 0-based index, or -1
IndexOf(xs, s) ==
    IF \E i \in 1..Len(xs) : xs[i] = s
    THEN (CHOOSE i \in 1..Len(xs) : xs[i] = s /\ \A j \in 1..(i - 1) : xs[j] # s) - 1
    ELSE -1

---------------------------------------------------------------------------
(* Syntax nodes *)

\* a missing node (null or undefined): it has no type any `case` matches
NoNode == [type |-> "<none>"]

Ident(n) == [type |-> "Identifier", name |-> n]
Literal(x) == [type |-> "Literal", value |-> x]
Quasi(s) == [type |-> "TemplateElement", value |-> [cooked |-> s]]
\* a template literal has one more quasi than it has expressions
Template(es, qs) == [type |-> "TemplateLiteral", expressions |-> es, quasis |-> qs]
Binary == [type |-> "BinaryExpression"]
Tagged == [type |-> "TaggedTemplateExpression"]
Call == [type |-> "CallExpression"]

---------------------------------------------------------------------------
(* The host's side: the program, and the scope graph the host derives from *)
(* it before "Program:exit" fires.                                         *)

\* a Definition of a variable
Def(kind) == [type |-> kind]

\* the identifier of the i-th reference (node 2i-1) and its parent (node 2i).  `shape` says what the
\* parent is: a member access the identifier is the object of ("object"), a member
\* access x[id] the identifier is the key of ("property"), or a call ("argument").
IdentifierNode(i, shape) ==
    LET parent ==
          CASE shape.kind = "object" ->
                 [type |-> "MemberExpression", id |-> 2 * i, loc |-> [line |-> i],
                  object |-> 2 * i - 1, computed |-> shape.computed, property |-> shape.key]
            [] shape.kind = "property" ->
                 [type |-> "MemberExpression", id |-> 2 * i, loc |-> [line |-> i],
                  object |-> 0, computed |-> TRUE, property |-> Ident(shape.name)]
            [] OTHER ->
                 [type |-> "CallExpression", id |-> 2 * i, loc |-> [line |-> i]]
    IN  [type |-> "Identifier", name |-> shape.name, id |-> 2 * i - 1, parent |-> parent]

\* the i-th Reference: its identifier, and the scope it occurs in
Reference(i, shape, from) == [identifier |-> IdentifierNode(i, shape), from |-> from]

\* whether scope s holds a variable `sails`: the program declares it there, or the
\* configuration declares it a global (a variable of the global scope with no
\* definition)
HoldsSails(s, decl, declaredGlobal) == decl[s] # << >> \/ (s = 1 /\ declaredGlobal)

\* the scope whose variable the host resolves reference r to: the innermost scope
\* around r that holds a variable of r's name; 0 when r stays unresolved
ResolvedAt(r, decl, declaredGlobal) ==
    LET holding == { s \in 1..r.from :
                       r.identifier.name = "sails" /\ HoldsSails(s, decl, declaredGlobal) }
    IN  IF holding = {} THEN 0 ELSE CHOOSE s \in holding : \A q \in holding : q <= s

\* the Variable `name` of scope s, with the references resolved to it
VariableOf(s, name, decl, declaredGlobal, refs) ==
    LET Mine(r) == r.identifier.name = name /\ ResolvedAt(r, decl, declaredGlobal) = s
    IN  [name |-> name,
         defs |-> IF name = "sails" THEN decl[s] ELSE << >>,
         references |-> SelectSeq(refs, Mine)]

\* scope s: its `upper`, its `set` (name -> Variable; a function scope always holds
\* `arguments`) and its `through`, the references of s and of the scopes inside it
\* that s does not resolve
ScopeOf(s, decl, declaredGlobal, refs) ==
    LET names == (IF HoldsSails(s, decl, declaredGlobal) THEN {"sails"} ELSE {})
                    \cup (IF s > 1 THEN {"arguments"} ELSE {})
        Through(r) == r.from >= s /\ ResolvedAt(r, decl, declaredGlobal) < s
    IN  [upper |-> s - 1,
         set |-> [n \in names |-> VariableOf(s, n, decl, declaredGlobal, refs)],
         through |-> SelectSeq(refs, Through)]

\* what a global scope and what a nested scope may declare `sails` with
GlobalDefs == { << >>, << Def("Variable") >>, << Def("Variable"), Def("Variable") >> }
NestedDefs == { << >>, << Def("Parameter") >> }

\* the use-sites a program is made of
Object(name, computed, key) == [kind |-> "object", name |-> name, computed |-> computed, key |-> key]
sailsHook == Object("sails", FALSE, Ident("hook"))                  \* sails.hook
sailsKey == Object("sails", TRUE, Ident("key"))                     \* sails[key]
sailsNum100 == Object("sails", TRUE, Literal(Num(100)))             \* sails[100]
sailsStr100 == Object("sails", TRUE, Literal(Str("100")))           \* sails["100"]
sailsEmpty == Object("sails", TRUE, Literal(Str("")))               \* sails[""]
sailsTemplate == Object("sails", TRUE, Template(<< >>, << Quasi("hook") >>))   \* sails[`hook`]
sailsTemplateExpr ==                                                \* sails[`${b}`]
    Object("sails", TRUE, Template(<< Ident("b") >>, << Quasi(""), Quasi("") >>))
sailsBinary == Object("sails", TRUE, Binary)                        \* sails["a" + "b"]
sailsTagged == Object("sails", TRUE, Tagged)                        \* sails[tag`b`]
keyOfOther == [kind |-> "property", name |-> "sails"]               \* x[sails]
argument == [kind |-> "argument", name |-> "sails"]                 \* f(sails)
otherHook == Object("other", FALSE, Ident("hook"))                  \* other.hook

\* context.options: no configuration, an empty object, or an allow-list
Allow(xs) == << [t |-> "object", allow |-> Arr(xs)] >>
NoOptions == << >>
EmptyOptions == << [t |-> "object", allow |-> Undefined] >>

\* The state before the rule is created: a program of the given use-sites, the
\* host's scope graph of it, a configuration and the scope "Program:exit" is in.
InitWith(Shapes, Options, anyStart) ==
    \E d \in 1..MaxDepth :
    \E decl \in [1..d -> GlobalDefs \cup NestedDefs] :
    \E declaredGlobal \in BOOLEAN :
    \E n \in 0..MaxRefs :
    \E shape \in [1..n -> Shapes] :
    \E from \in [1..n -> 1..d] :
        /\ decl[1] \in GlobalDefs
        /\ \A s \in 2..d : decl[s] \in NestedDefs
        /\ declaredGlobal => decl[1] = << >>
        /\ uses = [i \in 1..n |-> Reference(i, shape[i], from[i])]
        /\ scopes = [s \in 1..d |-> ScopeOf(s, decl, declaredGlobal, uses)]
        /\ start \in (IF anyStart THEN 1..d ELSE {1})
        /\ ctxOptions \in Options
        /\ allowed = << >>
        /\ pc = "start"
        /\ reports = << >>
        /\ examined = << >>
        /\ prev = [ran |-> FALSE, reports |-> << >>]
        /\ node = NoNode
        /\ propertyName = Null

---------------------------------------------------------------------------
(* Helpers of the rule (lines 167-222) *)

\* getStaticPropertyName with the `computed` test dropped
getStaticPropertyNameAnyIdentifier(n) ==
    LET prop == CASE n.type \in {"Property", "MethodDefinition"} -> n.key
                  [] n.type = "MemberExpression" -> n.property
                  [] OTHER -> NoNode
    IN  CASE prop.type = "Literal" -> Str(String(prop.value))
          [] prop.type = "TemplateLiteral" ->
                IF Len(prop.expressions) = 0 /\ Len(prop.quasis) = 1
                THEN Str(prop.quasis[1].value.cooked)
                ELSE Null
          [] prop.type = "Identifier" -> Str(prop.name)
          [] OTHER -> Null

\* getStaticPropertyName that takes a literal's value only when it is a string
getStaticPropertyNameStringLiterals(n) ==
    LET prop == CASE n.type \in {"Property", "MethodDefinition"} -> n.key
                  [] n.type = "MemberExpression" -> n.property
                  [] OTHER -> NoNode
    IN  CASE prop.type = "Literal" ->
                IF prop.value.t = "str" THEN Str(prop.value.v) ELSE Null
          [] prop.type = "TemplateLiteral" ->
                IF Len(prop.expressions) = 0 /\ Len(prop.quasis) = 1
                THEN Str(prop.quasis[1].value.cooked)
                ELSE Null
          [] prop.type = "Identifier" -> IF ~n.computed THEN Str(prop.name) ELSE Null
          [] OTHER -> Null

\* The property name of a MemberExpression, a Property or a MethodDefinition:
\* Str(name) if it is static, Null if it is dynamic.
getStaticPropertyName(n) ==
    LET prop == CASE n.type \in {"Property", "MethodDefinition"} -> n.key
                  [] n.type = "MemberExpression" -> n.property
                  [] OTHER -> NoNode
    IN  CASE prop.type = "Literal" -> Str(String(prop.value))
          [] prop.type = "TemplateLiteral" ->
                IF Len(prop.expressions) = 0 /\ Len(prop.quasis) = 1
                THEN Str(prop.quasis[1].value.cooked)
                ELSE Null
          [] prop.type = "Identifier" -> IF ~n.computed THEN Str(prop.name) ELSE Null
          [] OTHER -> Null

\* the `while` loop of getVariableByName: scope is an index into scopes, 0 is null
RECURSIVE ScopeLoop(_, _)
ScopeLoop(scope, name) ==
    IF scope = 0 THEN Null
    ELSE IF name \in DOMAIN scopes[scope].set
         THEN scopes[scope].set[name]
         ELSE ScopeLoop(scopes[scope].upper, name)

\* getVariableByName that looks at the given scope only
getVariableByNameNoUpper(initScope, name) ==
    IF name \in DOMAIN scopes[initScope].set
    THEN scopes[initScope].set[name]
    ELSE Null

\* The variable of the given name in the given scope or its upper scopes, or Null
getVariableByName(initScope, name) == ScopeLoop(initScope, name)

---------------------------------------------------------------------------
(* The closures of create(context) (lines 51-105) *)

isSails(reference) ==
    LET id == reference.identifier
    IN  id # NoNode /\ id.name = "sails"

\* isAllowed that allows whatever has no static name
isAllowedDynamic(n) ==
    LET name == getStaticPropertyName(n)
    IN  ~Truthy(name) \/ IndexOf(allowed, name.v) # -1

\* Whether the allow-list allows the property name of a MemberExpression.
\* The code's result is `propertyName && ...`; its only use is `!isAllowed(parent)`,
\* so the model gives the result's truth value.
isAllowed(n) ==
    LET name == getStaticPropertyName(n)
    IN  Truthy(name) /\ IndexOf(allowed, name.v) # -1

\* isMemberAccessExceptAllowed without the test of which side the identifier is on
isMemberAccessExceptAllowedAnySide(reference) ==
    LET id == reference.identifier
        parent == id.parent
    IN  /\ parent.type = "MemberExpression"
        /\ ~isAllowed(parent)

\* `parent.object === node` compares node identities: a node's identity is its id
isMemberAccessExceptAllowed(reference) ==
    LET id == reference.identifier
        parent == id.parent
    IN  /\ parent.type = "MemberExpression"
        /\ parent.object = id.id
        /\ ~isAllowed(parent)

\* report that interpolates the name of the restricted identifier
reportIdentifierName(reference) ==
    LET n == reference.identifier.parent
    IN  [node |-> n, loc |-> n.loc, messageId |-> "unexpected",
         data |-> [propertyName |-> Str(reference.identifier.name)]]

\* the object context.report receives for a reference
report(reference) ==
    LET n == reference.identifier.parent
        name == getStaticPropertyName(n)
    IN  [node |-> n, loc |-> n.loc, messageId |-> "unexpected",
         data |-> [propertyName |-> name]]

---------------------------------------------------------------------------
(* The "Program:exit" handler (lines 108-125) *)

\* `shadowed` that never holds
shadowedNever(consoleVar) == FALSE

\* whether a declaration shadows the global (line 111)
shadowed(consoleVar) == consoleVar # Null /\ Len(consoleVar.defs) > 0

\* the reference list the handler examines (lines 118-120)
references(scope, consoleVar) ==
    IF consoleVar # Null
    THEN consoleVar.references
    ELSE SelectSeq(scopes[scope].through, isSails)

\* the diagnostics of one run, less those a previous run already made
diagnosticsOncePerNode(refs) ==
    LET Fresh(r) == /\ isMemberAccessExceptAllowed(r)
                    /\ \A i \in 1..Len(prev.reports) :
                          prev.reports[i].node # r.identifier.parent
        flagged == SelectSeq(refs, Fresh)
    IN  [i \in 1..Len(flagged) |-> report(flagged[i])]

\* references.filter(isMemberAccessExceptAllowed).forEach(report) (line 123):
\* the objects context.report receives, in order
diagnostics(refs) ==
    LET flagged == SelectSeq(refs, isMemberAccessExceptAllowed)
    IN  [i \in 1..Len(flagged) |-> report(flagged[i])]

\* create(context) (lines 41-44): a run of the rule starts; the host gives it a
\* context of its own, which has received no report
Create ==
    /\ pc \in {"start", "exited"}
    /\ LET options == IF Len(ctxOptions) >= 1 /\ Truthy(ctxOptions[1])
                      THEN ctxOptions[1]
                      ELSE [allow |-> Undefined]
       IN  allowed' = IF Truthy(options.allow) THEN options.allow.v ELSE << >>
    /\ reports' = << >>
    /\ examined' = << >>
    /\ prev' = IF pc = "exited" THEN [ran |-> TRUE, reports |-> reports] ELSE prev
    /\ pc' = "created"
    /\ UNCHANGED << ctxOptions, scopes, start, uses, node, propertyName >>

\* "Program:exit"() (lines 108-125)
ProgramExit ==
    /\ pc = "created"
    /\ LET scope == start
           consoleVar == getVariableByName(scope, "sails")
           refs == references(scope, consoleVar)
       IN  /\ examined' = refs
           /\ reports' = reports \o (IF ~shadowed(consoleVar) THEN diagnostics(refs) ELSE << >>)
    /\ pc' = "exited"
    /\ UNCHANGED << ctxOptions, scopes, start, uses, allowed, prev, node, propertyName >>

\* a call of getStaticPropertyName on a node of any kind
GetStaticPropertyName ==
    /\ pc = "extract"
    /\ propertyName' = getStaticPropertyName(node)
    /\ pc' = "extracted"
    /\ UNCHANGED << ctxOptions, scopes, start, uses, allowed, reports, examined, prev, node >>

---------------------------------------------------------------------------
(* Specifications *)

Next == Create \/ ProgramExit

\* programs of static, dynamic and non-member uses; the handler runs in the global scope
Init ==
    InitWith({sailsHook, sailsKey, keyOfOther, argument, otherHook},
             {NoOptions, Allow(<< "hook" >>), Allow(<< "config", "key" >>)},
             FALSE)
Spec == Init /\ [][Next]_vars

\* programs of member accesses with static names
InitStatic ==
    InitWith({sailsHook, sailsNum100, sailsStr100, sailsEmpty},
             {NoOptions, Allow(<< "hook" >>), Allow(<< "100" >>), Allow(<< "config", "" >>)},
             FALSE)
SpecStatic == InitStatic /\ [][Next]_vars

\* programs of computed member accesses
InitDynamic ==
    InitWith({sailsKey, sailsTemplateExpr, sailsBinary, sailsTagged, sailsTemplate},
             {NoOptions, Allow(<< "key" >>), Allow(<< "b", "null", "hook" >>)},
             FALSE)
SpecDynamic == InitDynamic /\ [][Next]_vars

\* the handler in any scope of the chain
InitChain ==
    InitWith({sailsHook, sailsKey, otherHook},
             {EmptyOptions, Allow(<< "hook" >>)},
             TRUE)
SpecChain == InitChain /\ [][Next]_vars

\* the keys of the nodes getStaticPropertyName is called on
ExtractKeys ==
    { Ident("b"), Ident("hook"),
      Literal(Str("b")), Literal(Str("")), Literal(Str("100")),
      Literal(Num(100)), Literal(Num(0)), Literal(Num(7)),
      Literal(Null), Literal(Bool(TRUE)),
      Template(<< >>, << Quasi("b") >>),
      Template(<< Ident("b") >>, << Quasi(""), Quasi("") >>),
      Template(<< Ident("b") >>, << Quasi("a"), Quasi("c") >>),
      Binary, Tagged, Call }

\* what the key of a non-computed property or method may be: a name, a string, a number
PlainKeys == { k \in ExtractKeys : \/ k.type = "Identifier"
                                   \/ k.type = "Literal" /\ k.value.t \in {"str", "num"} }

\* the nodes getStaticPropertyName is called on: member accesses, properties and
\* methods (a.b, a[k], {b: 1}, {[k]: 1}), nodes of other types, and no node
ExtractNodes ==
    { [type |-> "MemberExpression", computed |-> TRUE, property |-> k] : k \in ExtractKeys }
    \cup { [type |-> "MemberExpression", computed |-> FALSE, property |-> k] :
              k \in { k \in ExtractKeys : k.type = "Identifier" } }
    \cup { [type |-> ty, computed |-> TRUE, key |-> k] :
              ty \in {"Property", "MethodDefinition"}, k \in ExtractKeys }
    \cup { [type |-> ty, computed |-> FALSE, key |-> k] :
              ty \in {"Property", "MethodDefinition"}, k \in PlainKeys }
    \cup { NoNode, Call, Binary, Ident("b"), Literal(Str("b")) }

InitExtract ==
    /\ node \in ExtractNodes
    /\ propertyName = Null
    /\ pc = "extract"
    /\ ctxOptions = NoOptions
    /\ scopes = << >>
    /\ start = 0
    /\ uses = << >>
    /\ allowed = << >>
    /\ reports = << >>
    /\ examined = << >>
    /\ prev = [ran |-> FALSE, reports |-> << >>]
NextExtract == GetStaticPropertyName
SpecExtract == InitExtract /\ [][NextExtract]_vars

---------------------------------------------------------------------------
(* What the claims speak of *)

Exited == pc = "exited"

\* the allow-list the rule is configured with
ConfiguredAllow ==
    IF Len(ctxOptions) = 1 /\ ctxOptions[1].allow.t = "array"
    THEN { ctxOptions[1].allow.v[i] : i \in 1..Len(ctxOptions[1].allow.v) }
    ELSE {}

Parent(r) == r.identifier.parent
Named(r) == r.identifier.name = "sails"

\* the scopes around a use-site, innermost first: its own scope and the upper ones
RECURSIVE UpperChain(_)
UpperChain(s) == IF s = 0 THEN << >> ELSE << s >> \o UpperChain(scopes[s].upper)

\* `sails` is declared, with a definition, in a scope around the use-site
DeclaredAround(r) ==
    \E k \in DOMAIN UpperChain(r.from) :
        LET set == scopes[UpperChain(r.from)[k]].set
        IN  "sails" \in DOMAIN set /\ Len(set["sails"].defs) >= 1

\* the diagnostics attached to a node
ReportsOn(n) == { k \in DOMAIN reports : reports[k].node = n }

\* the identifier is the object of a member access
ObjectOfMember(r) ==
    Parent(r).type = "MemberExpression" /\ Parent(r).object = r.identifier.id

\* the handler looked at the reference
Examined(r) == \E p \in DOMAIN examined : examined[p] = r

\* a key that is neither a literal nor a template of one segment and no expression
Indeterminate(key) ==
    /\ key.type # "Literal"
    /\ ~(key.type = "TemplateLiteral" /\ Len(key.expressions) = 0 /\ Len(key.quasis) = 1)

---------------------------------------------------------------------------
(* Claims *)

\* C1: a use-site of `sails` that has a declaration of `sails` (a variable with at
\* least one definition) in a scope around it gets no diagnostic, whatever the
\* allow-list and whatever the form of the access.
C1_ShadowingSuppressesReporting ==
    \A i \in DOMAIN uses :
        Named(uses[i]) /\ DeclaredAround(uses[i]) => ReportsOn(Parent(uses[i])) = {}

\* C1's case: the handler has run and has looked at a shadowed member access that the
\* allow-list does not allow.
C1_Witness ==
    /\ Exited
    /\ \E i \in DOMAIN uses :
          /\ Named(uses[i]) /\ DeclaredAround(uses[i])
          /\ Examined(uses[i])
          /\ isMemberAccessExceptAllowed(uses[i])

\* C2: an unshadowed reference to `sails` that is the object of a member access with
\* the static property name X, X not on the allow-list, gets exactly one diagnostic,
\* on the member access, at its location, with message `unexpected` and propertyName X.
C2_ExactlyOneDiagnostic ==
    Exited =>
      \A i \in DOMAIN uses :
        LET r == uses[i]
            X == getStaticPropertyName(Parent(r))
        IN  ( /\ Named(r) /\ ~DeclaredAround(r) /\ ObjectOfMember(r)
              /\ X.t = "str" /\ X.v \notin ConfiguredAllow )
            => /\ Cardinality(ReportsOn(Parent(r))) = 1
               /\ \A k \in ReportsOn(Parent(r)) :
                     /\ reports[k].messageId = "unexpected"
                     /\ reports[k].loc = Parent(r).loc
                     /\ reports[k].data.propertyName = X

\* C2's case: with an allow-list configured, the handler has reported a static name
\* that is not on it.
C2_Witness ==
    /\ Exited
    /\ ConfiguredAllow # {}
    /\ \E i \in DOMAIN uses :
          /\ Named(uses[i]) /\ ~DeclaredAround(uses[i]) /\ ObjectOfMember(uses[i])
          /\ getStaticPropertyName(Parent(uses[i])).t = "str"
          /\ getStaticPropertyName(Parent(uses[i])).v \notin ConfiguredAllow
          /\ ReportsOn(Parent(uses[i])) # {}

\* C3: a member access on `sails` whose static property name X is on the allow-list
\* gets no diagnostic, for every string X the extractor returns.
C3_AllowedNeverReported ==
    \A i \in DOMAIN uses :
        LET r == uses[i]
            X == getStaticPropertyName(Parent(r))
        IN  ( ObjectOfMember(r) /\ X.t = "str" /\ X.v \in ConfiguredAllow )
            => ReportsOn(Parent(r)) = {}

\* C4: an unshadowed computed access sails[expr] whose key is neither a literal nor a
\* template of one segment has an indeterminate name and gets a diagnostic, whatever
\* the allow-list.
C4_IndeterminateReported ==
    Exited =>
      \A i \in DOMAIN uses :
        LET r == uses[i]
        IN  ( /\ Named(r) /\ ~DeclaredAround(r) /\ ObjectOfMember(r)
              /\ Parent(r).computed /\ Indeterminate(Parent(r).property) )
            => /\ getStaticPropertyName(Parent(r)) = Null
               /\ ReportsOn(Parent(r)) # {}

\* C4's case: sails[key] is reported although "key" is on the allow-list.
C4_Witness ==
    /\ Exited
    /\ "key" \in ConfiguredAllow
    /\ \E i \in DOMAIN uses :
          /\ Named(uses[i]) /\ ~DeclaredAround(uses[i]) /\ ObjectOfMember(uses[i])
          /\ Parent(uses[i]).computed /\ Parent(uses[i]).property = Ident("key")
          /\ ReportsOn(Parent(uses[i])) # {}

\* C5 as stated: every diagnostic carries a propertyName that is a resolved string.
C5_PropertyNameIsString ==
    \A k \in DOMAIN reports : reports[k].data.propertyName.t = "str"

\* C5 as amended: every diagnostic carries what the extractor returns for the member
\* access it is attached to: a string when the name is static, and null when the
\* access is computed with a key that is neither a literal nor a one-segment template.
C5_PropertyNameAsExtracted ==
    \A k \in DOMAIN reports :
        LET n == reports[k].node
            name == reports[k].data.propertyName
        IN  /\ name = getStaticPropertyName(n)
            /\ name.t \in {"str", "null"}
            /\ (n.computed /\ Indeterminate(n.property)) => name = Null
            /\ ( \/ n.property.type = "Literal"
                 \/ n.property.type = "Identifier" /\ ~n.computed
                 \/ n.property.type = "TemplateLiteral" /\ ~Indeterminate(n.property) )
               => name.t = "str"

\* C5's case: a diagnostic with a null propertyName and one with a string.
C5_Witness ==
    /\ Exited
    /\ \E k \in DOMAIN reports : reports[k].data.propertyName = Null
    /\ \E k \in DOMAIN reports : reports[k].data.propertyName.t = "str"

\* C6: sails[100] and sails["100"] are the same to the allow-list: the extractor
\* returns "100" for both, and in the same scope the one is reported if and only if
\* the other is, with the same propertyName.
C6_NumericKeyAsString ==
    Exited =>
      \A i, j \in DOMAIN uses :
        LET a == uses[i]
            b == uses[j]
        IN  ( /\ Named(a) /\ ObjectOfMember(a) /\ Parent(a).computed
              /\ Parent(a).property = Literal(Num(100))
              /\ Named(b) /\ ObjectOfMember(b) /\ Parent(b).computed
              /\ Parent(b).property = Literal(Str("100"))
              /\ a.from = b.from )
            => /\ getStaticPropertyName(Parent(a)) = Str("100")
               /\ getStaticPropertyName(Parent(b)) = Str("100")
               /\ ReportsOn(Parent(a)) = {} <=> ReportsOn(Parent(b)) = {}
               /\ \A k \in ReportsOn(Parent(a)) : \A m \in ReportsOn(Parent(b)) :
                     reports[k].data.propertyName = reports[m].data.propertyName

\* C6's case: with "100" on the allow-list, unshadowed sails[100] and sails["100"] of
\* one scope have been examined and neither is reported.
C6_Witness ==
    /\ Exited
    /\ "100" \in ConfiguredAllow
    /\ \E i, j \in DOMAIN uses :
          /\ Parent(uses[i]).property = Literal(Num(100))
          /\ Parent(uses[j]).property = Literal(Str("100"))
          /\ uses[i].from = uses[j].from
          /\ ~DeclaredAround(uses[i])
          /\ Examined(uses[i]) /\ Examined(uses[j])
          /\ ReportsOn(Parent(uses[i])) = {} /\ ReportsOn(Parent(uses[j])) = {}

\* C7: a second run on the same scope graph, syntax tree and allow-list makes the
\* diagnostics of the first, in the same order, and that order is the order of the
\* reference list.
C7_SecondRunSame ==
    Exited =>
      /\ prev.ran => reports = prev.reports
      /\ \A k, m \in DOMAIN reports :
            k < m => \E p, q \in DOMAIN examined :
                        /\ p < q
                        /\ Parent(examined[p]) = reports[k].node
                        /\ Parent(examined[q]) = reports[m].node

\* C7's case: the second run has ended with two diagnostics.
C7_Witness == Exited /\ prev.ran /\ Len(reports) >= 2

\* C8: a reference whose parent is no member access, or whose identifier is the key
\* side of a member access, gets no diagnostic; every diagnostic is on a member
\* access whose object is an identifier named `sails`.
C8_OnlyObjectSide ==
    /\ \A i \in DOMAIN uses :
          ~ObjectOfMember(uses[i]) => ReportsOn(Parent(uses[i])) = {}
    /\ \A k \in DOMAIN reports :
          /\ reports[k].node.type = "MemberExpression"
          /\ \E i \in DOMAIN uses :
                /\ Named(uses[i])
                /\ Parent(uses[i]) = reports[k].node
                /\ reports[k].node.object = uses[i].identifier.id

\* C8's case: the handler has examined a reference to `sails` that is not the object
\* side of a member access (x[sails] or f(sails)), and has reported another one.
C8_Witness ==
    /\ Exited
    /\ reports # << >>
    /\ \E i \in DOMAIN uses :
          /\ Named(uses[i]) /\ Examined(uses[i])
          /\ ~ObjectOfMember(uses[i])

\* the first scope of the chain from the start scope that holds a variable `sails`;
\* 0 when none does
FirstHolder ==
    LET chain == UpperChain(start)
        holding == { k \in DOMAIN chain : "sails" \in DOMAIN scopes[chain[k]].set }
    IN  IF holding = {} THEN 0
        ELSE chain[CHOOSE k \in holding : \A q \in holding : k <= q]

\* C9: the variable is the one of the first scope, from the start scope through the
\* upper links, that holds `sails`.  With a definition it is shadowed and nothing is
\* reported; without one the references examined are the variable's; when no scope
\* holds `sails` they are the start scope's through references named `sails`.
C9_BindingResolution ==
    Exited =>
      IF FirstHolder # 0
      THEN LET v == scopes[FirstHolder].set["sails"]
           IN  /\ Len(v.defs) >= 1 => reports = << >>
               /\ Len(v.defs) = 0 => examined = v.references
      ELSE /\ \A p \in DOMAIN examined : Named(examined[p])
           /\ \A t \in DOMAIN scopes[start].through :
                 Named(scopes[start].through[t]) => Examined(scopes[start].through[t])
           /\ \A p \in DOMAIN examined :
                 \E t \in DOMAIN scopes[start].through : scopes[start].through[t] = examined[p]
           /\ Len(examined) =
                 Cardinality({ t \in DOMAIN scopes[start].through :
                                 Named(scopes[start].through[t]) })

\* C9's case: the handler started in a nested scope, found the variable in an upper
\* scope, without a definition, and examined its references.
C9_Witness ==
    /\ Exited
    /\ FirstHolder # 0 /\ FirstHolder # start
    /\ scopes[FirstHolder].set["sails"].defs = << >>
    /\ examined # << >>
    /\ reports # << >>

\* String(value) of the literal values of the model's nodes, as JavaScript defines it
StringOfLiteral(x) ==
    CASE x = Num(100) -> "100"
      [] x = Num(0) -> "0"
      [] x = Num(7) -> "7"
      [] x = Null -> "null"
      [] x = Bool(TRUE) -> "true"
      [] OTHER -> x.v

\* C10: the extractor returns a name in three cases only: a literal key (its value as
\* a string), a template of one segment and no expression (the segment, cooked), an
\* identifier key of a non-computed access (its name).  A computed identifier key, a
\* template with expressions, a binary expression, a tagged template and a node that
\* is no member access, property or method give null.
C10_ExtractorCases ==
    pc = "extracted" =>
      LET keyed == node.type \in {"MemberExpression", "Property", "MethodDefinition"}
          key == IF node.type = "MemberExpression" THEN node.property ELSE node.key
      IN  /\ ~keyed => propertyName = Null
          /\ keyed =>
               /\ key.type = "Literal" => propertyName = Str(StringOfLiteral(key.value))
               /\ key.type = "TemplateLiteral" =>
                    IF key.expressions = << >> /\ Len(key.quasis) = 1
                    THEN propertyName = Str(key.quasis[1].value.cooked)
                    ELSE propertyName = Null
               /\ key.type = "Identifier" =>
                    IF node.computed THEN propertyName = Null
                    ELSE propertyName = Str(key.name)
               /\ key.type \notin {"Literal", "TemplateLiteral", "Identifier"} =>
                    propertyName = Null

\* C10's case: the extractor was called on a[b] and returned null.
C10_Witness ==
    /\ pc = "extracted"
    /\ node = [type |-> "MemberExpression", computed |-> TRUE, property |-> Ident("b")]
    /\ propertyName = Null

=============================================================================
